---- MODULE Spec2Model ----
(***************************************************************************)
(* The chat relay (src/app/api/chat/route.ts, POST) and the floating chat  *)
(* widget (src/components/ui/FloatingChat.tsx) as one state machine.       *)
(*                                                                         *)
(* A JavaScript string is a sequence of atoms: "" is <<>>, concatenation   *)
(* is \o, and a question is a sequence over Chars so that trim() is        *)
(* computed as the runtime computes it.  A JavaScript value is a tagged    *)
(* record: undefined, null, a string or an object with its fields.         *)
(***************************************************************************)
EXTENDS Integers, Sequences, FiniteSets, TLC

\* -------------------------------------------------------------- bounds
MaxQueryLen == 2
MaxSubjects == 2
MaxPending == 2
MaxStudents == 2
MaxPasswordLen == 6
MaxResets == 2

\* ------------------------------------------------------ JavaScript values
Undefined == [t |-> "undefined"]
Null == [t |-> "null"]
Str(s) == [t |-> "string", v |-> s]
Obj(fields) == [t |-> "object", f |-> fields]
Arr(items) == [t |-> "array", a |-> items]

Nullish(x) == x.t \in {"undefined", "null"}

\* !!x for the values the model holds: undefined, null and "" are falsy.
Truthy(x) == IF x.t = "string" THEN x.v # <<>> ELSE ~Nullish(x)

\* x.k on a non-nullish value (a missing property reads as undefined).
Member(x, k) ==
  IF x.t = "object" /\ k \in DOMAIN x.f THEN x.f[k] ELSE Undefined

\* x?.k
OptMember(x, k) == IF Nullish(x) THEN Undefined ELSE Member(x, k)

\* x?.[0]
OptFirst(x) ==
  IF Nullish(x) THEN Undefined
  ELSE IF x.t = "array" /\ Len(x.a) > 0 THEN x.a[1] ELSE Undefined

\* Response.json() / Request.json(): the body either parses or the call rejects.
Unparseable == [parse |-> "throws"]
Parsed(value) == [parse |-> "ok", json |-> value]

\* ------------------------------------------------------------ questions
Chars == {" ", "a"}

IsSpace(c) == c = " "

Texts == UNION {[1..n -> Chars] : n \in 0..MaxQueryLen}

RECURSIVE TrimStart(_)
TrimStart(s) ==
  IF s # <<>> /\ IsSpace(Head(s)) THEN TrimStart(Tail(s)) ELSE s

RECURSIVE TrimEnd(_)
TrimEnd(s) ==
  IF s # <<>> /\ IsSpace(s[Len(s)]) THEN TrimEnd(SubSeq(s, 1, Len(s) - 1)) ELSE s

\* String.prototype.trim
trim(s) == TrimEnd(TrimStart(s))

\* ------------------------------------------------------------- subjects
subjects ==
  << <<"Mathematics">>, <<"Physics">>, <<"Chemistry">>, <<"Biology">>,
     <<"Computer Science">>, <<"English">>, <<"History">>, <<"Geography">>,
     <<"General">> >>

SubjectSet == {subjects[i] : i \in 1..Len(subjects)}

\* The options of the <select>: the placeholder "" and the listed subjects
\* (the first MaxSubjects of them are the ones a user of the model picks).
Options == {<<>>} \cup {subjects[i] : i \in 1..MaxSubjects}

\* A subject no option of the widget carries.
Unlisted == <<"Astrology">>

\* ------------------------------------------------------------ state
VARIABLES
  \* FloatingChat's React state (FloatingChat.tsx:6-10)
  isOpen, query, subject, response, loading,
  \* the widget's fetch('/api/chat') calls that have not settled yet
  pending,
  \* the last event of the widget or step of the relay, with its outcome
  lastEvent,
  \* one invocation of POST (route.ts): its position, the request it serves
  \* and who sent it, the provider calls it has issued, what the provider
  \* answered, the error its catch block caught, and its NextResponse
  relayPc, request, origin, outbound, upstream, caught, reply,
  \* AdminStudentsPage's React state (page.tsx:38-43)
  students, filteredStudents, searchTerm, filterType, studentsError, studentsLoading,
  \* StudentDetailPage's React state of the reset-password dialog
  \* (page.tsx:486-490)
  showPasswordDialog, passwordForm, passwordLoading, passwordError, passwordSuccess,
  \* handleResetPassword: whether it awaits the server, the requests it has
  \* sent, the setTimeout callbacks it has scheduled
  resetPc, sent, timers,
  \* the last event of the two admin pages, with its outcome
  adminEvent

widgetVars == <<isOpen, query, subject, response, loading>>
relayVars == <<relayPc, request, origin, outbound, upstream, caught, reply>>
chatVars == <<isOpen, query, subject, response, loading, pending, lastEvent,
              relayPc, request, origin, outbound, upstream, caught, reply>>
listVars == <<students, filteredStudents, searchTerm, filterType, studentsError, studentsLoading>>
resetVars == <<showPasswordDialog, passwordForm, passwordLoading, passwordError,
               passwordSuccess, resetPc, sent, timers>>
adminVars == <<students, filteredStudents, searchTerm, filterType, studentsError, studentsLoading,
               showPasswordDialog, passwordForm, passwordLoading, passwordError,
               passwordSuccess, resetPc, sent, timers, adminEvent>>
vars == <<isOpen, query, subject, response, loading, pending, lastEvent,
          relayPc, request, origin, outbound, upstream, caught, reply,
          students, filteredStudents, searchTerm, filterType, studentsError, studentsLoading,
          showPasswordDialog, passwordForm, passwordLoading, passwordError,
          passwordSuccess, resetPc, sent, timers, adminEvent>>

\* ------------------------------------------------------------ the relay
NoRequest == [parse |-> "none"]
NoOutcome == [kind |-> "none"]
NoError == [name |-> "none", message |-> <<>>]
NoReply == [status |-> 0, body |-> [success |-> FALSE]]

JsError(name, message) == [name |-> name, message |-> message]

\* const { query, subject } = await request.json()
RequestJson_lenient(req) ==
  IF req.parse = "throws" \/ Nullish(req.json)
    THEN [threw |-> FALSE, error |-> NoError, query |-> Undefined, subject |-> Undefined]
  ELSE [threw |-> FALSE, error |-> NoError,
        query |-> Member(req.json, "query"), subject |-> Member(req.json, "subject")]

RequestJson(req) ==
  IF req.parse = "throws"
    THEN [threw |-> TRUE, error |-> JsError("SyntaxError", <<"Unexpected token">>),
          query |-> Undefined, subject |-> Undefined]
  ELSE IF Nullish(req.json)
    THEN [threw |-> TRUE, error |-> JsError("TypeError", <<"Cannot destructure">>),
          query |-> Undefined, subject |-> Undefined]
  ELSE [threw |-> FALSE, error |-> NoError,
        query |-> Member(req.json, "query"), subject |-> Member(req.json, "subject")]

\* if (!query || !subject)
Invalid(q, s) == ~Truthy(q) \/ ~Truthy(s)

BadRequest ==
  [status |-> 400,
   body |-> [success |-> FALSE, error |-> Str(<<"Query and subject are required">>)]]

\* the template literal of the prompt
Prompt(s, q) ==
  <<"You are a helpful study assistant for students. Subject: ">> \o s.v
    \o <<" Student Question: ">> \o q.v
    \o <<" Please provide a clear, educational answer [...]">>

\* await fetch(`${baseURL}/models/gemini-1.5-flash:generateContent`, ...)
IssueFetch_retries(calls, prompt) == calls \o <<prompt, prompt>>

IssueFetch(calls, prompt) == Append(calls, prompt)

\* the catch block: the error is logged, the reply is fixed
Caught_leaks(error) ==
  [status |-> 500, body |-> [success |-> FALSE, error |-> Str(error.message)]]

Caught(error) ==
  [status |-> 500,
   body |-> [success |-> FALSE,
             error |-> Str(<<"Failed to get response from AI assistant">>)]]

\* NextResponse.json({ success: true, response: text })
Answer(text) == [status |-> 200, body |-> [success |-> TRUE, response |-> text]]

\* data.candidates?.[0]?.content?.parts?.[0]?.text || 'No response received'
ExtractText_noFallback(data) ==
  OptMember(OptFirst(OptMember(OptMember(OptFirst(
    Member(data, "candidates")), "content"), "parts")), "text")

ExtractText_last(data) ==
  LET c == Member(data, "candidates")
      text == OptMember(OptFirst(OptMember(OptMember(
                IF ~Nullish(c) /\ c.t = "array" /\ Len(c.a) > 0
                  THEN c.a[Len(c.a)] ELSE Undefined,
                "content"), "parts")), "text")
  IN  IF Truthy(text) THEN text ELSE Str(<<"No response received">>)

ExtractText(data) ==
  LET text == OptMember(OptFirst(OptMember(OptMember(OptFirst(
                Member(data, "candidates")), "content"), "parts")), "text")
  IN  IF Truthy(text) THEN text ELSE Str(<<"No response received">>)

\* what the provider can do with one call
FirstAnswer == <<"Inertia is the tendency of a body to keep its state.">>
AnswerTexts == {FirstAnswer, <<"Photosynthesis turns light into sugar.">>}

Part(text) == Obj([text |-> text])
Candidate(parts) == Obj([content |-> Obj([parts |-> parts])])
Data(candidates) == Obj([candidates |-> candidates])

DataShapes ==
  {Data(Undefined), Data(Arr(<<>>)),
   Data(Arr(<<Obj([content |-> Undefined])>>)),
   Data(Arr(<<Candidate(Undefined)>>)),
   Data(Arr(<<Candidate(Arr(<<>>))>>)),
   Data(Arr(<<Candidate(Arr(<<Part(Undefined)>>))>>)),
   Data(Arr(<<Candidate(Arr(<<Part(Str(<<>>))>>))>>))}
  \cup {Data(Arr(<<Candidate(Arr(<<Part(Str(t))>>))>>)) : t \in AnswerTexts}
  \cup {Data(Arr(<<Candidate(Arr(<<Part(Str(t))>>)),
                   Candidate(Arr(<<Part(Str(u))>>))>>)) :
          t \in AnswerTexts, u \in AnswerTexts}

ErrorShapes ==
  {Obj([error |-> Undefined]),
   Obj([error |-> Obj([message |-> Str(<<"API key not valid.">>)])])}

ProviderOutcomes ==
  {[kind |-> "throws", ok |-> FALSE, statusText |-> <<"fetch failed">>, body |-> Unparseable]}
  \cup {[kind |-> "response", ok |-> TRUE, statusText |-> <<"OK">>, body |-> b] :
          b \in {Unparseable, Parsed(Null)} \cup {Parsed(d) : d \in DataShapes}}
  \cup {[kind |-> "response", ok |-> FALSE, statusText |-> <<"Too Many Requests">>, body |-> b] :
          b \in {Unparseable, Parsed(Null)} \cup {Parsed(d) : d \in ErrorShapes}}

\* the code that follows the await of fetch, up to the text or the throw
AfterFetch(o) ==
  IF o.kind = "throws"
    THEN [threw |-> TRUE, error |-> JsError("TypeError", o.statusText), text |-> Undefined]
  ELSE IF o.body.parse = "throws"
    THEN [threw |-> TRUE, error |-> JsError("SyntaxError", <<"Unexpected token">>),
          text |-> Undefined]
  ELSE IF Nullish(o.body.json)
    THEN [threw |-> TRUE, error |-> JsError("TypeError", <<"Cannot read properties of null">>),
          text |-> Undefined]
  ELSE IF ~o.ok
    THEN LET m == OptMember(Member(o.body.json, "error"), "message")
         IN  [threw |-> TRUE,
              error |-> JsError("Error", <<"Google API error: ">> \o
                                  (IF Truthy(m) THEN m.v ELSE o.statusText)),
              text |-> Undefined]
  ELSE [threw |-> FALSE, error |-> NoError, text |-> ExtractText(o.body.json)]

\* POST up to its first await of the provider
POST_begin(req, from) ==
  /\ relayPc = "idle"
  /\ request' = req
  /\ origin' = from
  /\ upstream' = NoOutcome
  /\ LET d == RequestJson(req) IN
       IF d.threw
         THEN /\ relayPc' = "responded"
              /\ caught' = d.error
              /\ reply' = Caught(d.error)
              /\ outbound' = <<>>
       ELSE IF Invalid(d.query, d.subject)
         THEN /\ relayPc' = "responded"
              /\ caught' = NoError
              /\ reply' = BadRequest
              /\ outbound' = <<>>
       ELSE /\ relayPc' = "fetching"
            /\ caught' = NoError
            /\ reply' = NoReply
            /\ outbound' = IssueFetch(<<>>, Prompt(d.subject, d.query))

\* POST from the provider's outcome to its response
POST_resume(outcomes) ==
  /\ UNCHANGED adminVars
  /\ relayPc = "fetching"
  /\ \E o \in outcomes :
       LET r == AfterFetch(o) IN
         /\ upstream' = o
         /\ caught' = r.error
         /\ reply' = IF r.threw THEN Caught(r.error) ELSE Answer(r.text)
  /\ relayPc' = "responded"
  /\ lastEvent' = [ev |-> "relay"]
  /\ UNCHANGED <<request, origin, outbound, pending>>
  /\ UNCHANGED widgetVars

\* requests of clients other than the widget
RequestValues == {Undefined, Null} \cup {Str(t) : t \in Texts}
SubjectValues == {Undefined, Str(<<>>), Str(subjects[1]), Str(Unlisted)}

DirectRequests ==
  {Unparseable, Parsed(Null)}
  \cup {Parsed(Obj([query |-> q, subject |-> s])) :
          q \in RequestValues, s \in SubjectValues}

POST_direct ==
  /\ UNCHANGED adminVars
  /\ \E req \in DirectRequests : POST_begin(req, "direct")
  /\ lastEvent' = [ev |-> "relay"]
  /\ UNCHANGED pending
  /\ UNCHANGED widgetVars

\* the response leaves for a client that is not the widget
POST_return ==
  /\ UNCHANGED adminVars
  /\ relayPc = "responded"
  /\ origin = "direct"
  /\ relayPc' = "idle"
  /\ request' = NoRequest
  /\ origin' = "none"
  /\ outbound' = <<>>
  /\ upstream' = NoOutcome
  /\ caught' = NoError
  /\ reply' = NoReply
  /\ lastEvent' = [ev |-> "relay"]
  /\ UNCHANGED pending
  /\ UNCHANGED widgetVars

Init ==
  /\ isOpen = FALSE
  /\ query = <<>>
  /\ subject = <<>>
  /\ response = <<>>
  /\ loading = FALSE
  /\ pending = <<>>
  /\ lastEvent = [ev |-> "init"]
  /\ relayPc = "idle"
  /\ request = NoRequest
  /\ origin = "none"
  /\ outbound = <<>>
  /\ upstream = NoOutcome
  /\ caught = NoError
  /\ reply = NoReply
  /\ students = <<>>
  /\ filteredStudents = <<>>
  /\ searchTerm = <<>>
  /\ filterType = "all"
  /\ studentsError = <<>>
  /\ studentsLoading = TRUE
  /\ showPasswordDialog = FALSE
  /\ passwordForm = [newPassword |-> <<>>, confirmPassword |-> <<>>]
  /\ passwordLoading = FALSE
  /\ passwordError = <<>>
  /\ passwordSuccess = <<>>
  /\ resetPc = "idle"
  /\ sent = <<>>
  /\ timers = 0
  /\ adminEvent = [ev |-> "init"]

RelayNext == POST_direct \/ POST_resume(ProviderOutcomes) \/ POST_return

RelaySpec == Init /\ [][RelayNext]_vars

\* ----------------------------------------------------------- the widget
ErrorText == <<"Sorry, I encountered an error. Please try again.">>

\* !query.trim() || !subject
Blank_noTrim(q, s) == q = <<>> \/ s = <<>>

Blank_ignoresSubject(q, s) == trim(q) = <<>>

Blank(q, s) == trim(q) = <<>> \/ s = <<>>

\* disabled={loading || !query.trim() || !subject}
SubmitDisabled_ignoresLoading == Blank(query, subject)

SubmitDisabled == loading \/ Blank(query, subject)

\* JSON.stringify({ query, subject }) as the relay's request.json() reads it
Body(p) == Parsed(Obj([query |-> Str(p.query), subject |-> Str(p.subject)]))

\* setLoading(true); setResponse('')
handleSubmit_start_keepsResult == [loading |-> TRUE, response |-> response]

handleSubmit_start == [loading |-> TRUE, response |-> <<>>]

\* handleSubmit after res.json(): FloatingChat.tsx:42-51
handleSubmit_then_staysLoading(data) ==
  [response |-> IF data.success THEN data.response.v ELSE ErrorText,
   loading |-> TRUE]

handleSubmit_then_showsError(data) ==
  [response |-> IF data.success THEN data.response.v ELSE data.error.v,
   loading |-> FALSE]

handleSubmit_then(data) ==
  [response |-> IF data.success THEN data.response.v ELSE ErrorText,
   loading |-> FALSE]

\* handleSubmit when fetch or res.json() rejects: FloatingChat.tsx:47-51
handleSubmit_catch_staysLoading == [response |-> ErrorText, loading |-> TRUE]

handleSubmit_catch == [response |-> ErrorText, loading |-> FALSE]

\* onClick={() => setIsOpen(!isOpen)}
Toggle_resets ==
  /\ UNCHANGED adminVars
  /\ isOpen' = ~isOpen
  /\ response' = <<>>
  /\ loading' = FALSE
  /\ lastEvent' = [ev |-> "toggle"]
  /\ UNCHANGED <<query, subject, pending>>
  /\ UNCHANGED relayVars

Toggle ==
  /\ UNCHANGED adminVars
  /\ isOpen' = ~isOpen
  /\ lastEvent' = [ev |-> "toggle"]
  /\ UNCHANGED <<query, subject, response, loading, pending>>
  /\ UNCHANGED relayVars

\* onChange={(e) => setQuery(e.target.value)}: the panel is rendered
SetQuery ==
  /\ UNCHANGED adminVars
  /\ isOpen
  /\ \E t \in Texts : query' = t
  /\ lastEvent' = [ev |-> "edit"]
  /\ UNCHANGED <<isOpen, subject, response, loading, pending>>
  /\ UNCHANGED relayVars

\* onChange={(e) => setSubject(e.target.value)}
SetSubject ==
  /\ UNCHANGED adminVars
  /\ isOpen
  /\ \E s \in Options : subject' = s
  /\ lastEvent' = [ev |-> "edit"]
  /\ UNCHANGED <<isOpen, query, response, loading, pending>>
  /\ UNCHANGED relayVars

clearChat_cancels ==
  /\ UNCHANGED adminVars
  /\ isOpen
  /\ query' = <<>>
  /\ response' = <<>>
  /\ subject' = <<>>
  /\ loading' = FALSE
  /\ pending' = <<>>
  /\ lastEvent' = [ev |-> "clear"]
  /\ relayPc' = "idle"
  /\ request' = NoRequest
  /\ origin' = "none"
  /\ outbound' = <<>>
  /\ upstream' = NoOutcome
  /\ caught' = NoError
  /\ reply' = NoReply
  /\ UNCHANGED isOpen

clearChat ==
  /\ UNCHANGED adminVars
  /\ isOpen
  /\ query' = <<>>
  /\ response' = <<>>
  /\ subject' = <<>>
  /\ lastEvent' = [ev |-> "clear"]
  /\ UNCHANGED <<isOpen, loading, pending>>
  /\ UNCHANGED relayVars

\* The user activates the submit button: a disabled button dispatches no
\* submit event, an enabled one runs handleSubmit up to its await of fetch.
handleSubmit ==
  /\ UNCHANGED adminVars
  /\ isOpen
  /\ IF SubmitDisabled \/ Blank(query, subject)
       THEN /\ lastEvent' = [ev |-> "submit", issued |-> FALSE]
            /\ UNCHANGED <<response, loading, pending>>
       ELSE /\ Len(pending) < MaxPending
            /\ loading' = handleSubmit_start.loading
            /\ response' = handleSubmit_start.response
            /\ pending' = Append(pending, [query |-> query, subject |-> subject,
                                           served |-> FALSE])
            /\ lastEvent' = [ev |-> "submit", issued |-> TRUE, shown |-> response]
  /\ UNCHANGED <<isOpen, query, subject>>
  /\ UNCHANGED relayVars

\* the relay takes up the widget's request
POST_widget ==
  /\ UNCHANGED adminVars
  /\ \E i \in DOMAIN pending :
       /\ ~pending[i].served
       /\ \A j \in DOMAIN pending : j < i => pending[j].served
       /\ POST_begin(Body(pending[i]), "widget")
       /\ pending' = [pending EXCEPT ![i].served = TRUE]
  /\ lastEvent' = [ev |-> "relay"]
  /\ UNCHANGED widgetVars

Without(seq, i) == SubSeq(seq, 1, i - 1) \o SubSeq(seq, i + 1, Len(seq))

\* the relay's response arrives and handleSubmit runs on from its await
handleSubmit_resume ==
  /\ UNCHANGED adminVars
  /\ relayPc = "responded"
  /\ origin = "widget"
  /\ \E i \in DOMAIN pending :
       /\ pending[i].served
       /\ pending' = Without(pending, i)
  /\ LET data == reply.body
         set == handleSubmit_then(data)
     IN  /\ response' = set.response
         /\ loading' = set.loading
         /\ lastEvent' = [ev |-> "settled", how |-> "resolved", status |-> reply.status,
                          data |-> data]
  /\ relayPc' = "idle"
  /\ request' = NoRequest
  /\ origin' = "none"
  /\ outbound' = <<>>
  /\ upstream' = NoOutcome
  /\ caught' = NoError
  /\ reply' = NoReply
  /\ UNCHANGED <<isOpen, query, subject>>

\* fetch rejects (the network between browser and server fails) or the body
\* that arrives is no JSON (res.json() rejects): the catch block runs.  The
\* invocation of POST that serves the request, if any, answers nobody and is
\* followed no further.
handleSubmit_failed ==
  /\ UNCHANGED adminVars
  /\ \E i \in DOMAIN pending :
       /\ pending' = Without(pending, i)
       /\ IF pending[i].served
            THEN /\ relayPc' = "idle"
                 /\ request' = NoRequest
                 /\ origin' = "none"
                 /\ outbound' = <<>>
                 /\ upstream' = NoOutcome
                 /\ caught' = NoError
                 /\ reply' = NoReply
            ELSE UNCHANGED relayVars
  /\ \E how \in {"network", "body"} :
       lastEvent' = [ev |-> "settled", how |-> how]
  /\ response' = handleSubmit_catch.response
  /\ loading' = handleSubmit_catch.loading
  /\ UNCHANGED <<isOpen, query, subject>>

\* What the provider does with the calls made for the widget: one outcome for
\* each reply the relay can give (the failure, the fallback, a text).
WidgetOutcomes ==
  {o \in ProviderOutcomes :
     \/ o.kind = "throws"
     \/ o.ok /\ o.body = Parsed(Data(Arr(<<>>)))
     \/ o.ok /\ o.body = Parsed(Data(Arr(<<Candidate(Arr(<<Part(Str(FirstAnswer))>>))>>)))}

\* the widget and the relay that serves it
WidgetNext ==
  \/ Toggle
  \/ SetQuery
  \/ SetSubject
  \/ clearChat
  \/ handleSubmit
  \/ POST_widget
  \/ POST_resume(WidgetOutcomes)
  \/ handleSubmit_resume
  \/ handleSubmit_failed

WidgetSpec == Init /\ [][WidgetNext]_vars

\* every call that is issued is taken up, answered and settled
WidgetLive ==
  /\ WidgetSpec
  /\ WF_vars(POST_widget)
  /\ WF_vars(POST_resume(WidgetOutcomes))
  /\ WF_vars(handleSubmit_resume)

\* ------------------------------------------------ the students list page
\* String.prototype.toLowerCase on the letters the model uses
Lower(c) ==
  CASE c = "A" -> "a"
    [] c = "B" -> "b"
    [] c = "C" -> "c"
    [] OTHER -> c

toLowerCase(s) == [i \in DOMAIN s |-> Lower(s[i])]

\* String.prototype.includes
includes(s, t) ==
  \E k \in 1..(Len(s) - Len(t) + 1) : \A j \in 1..Len(t) : s[k + j - 1] = t[j]

\* the rows /api/admin/students/stats can return
StudentPool ==
  {[name |-> n, email |-> <<"b", "C">>, phone |-> p, enrolled_courses |-> k] :
     n \in {<<"A", "b">>, <<"c">>},
     p \in {Null, Str(<<"1", "A">>)},
     k \in {0, 2}}

StudentLists == UNION {[1..n -> StudentPool] : n \in 0..MaxStudents}

SearchTerms ==
  {<<>>, <<"a">>, <<"A", "B">>, <<"b", "c">>, <<"1">>, <<"x">>}

FilterTypes == {"all", "enrolled", "not_enrolled"}

\* filterStudents with the state it reads as parameters
filterStudents_caseSensitive(list, term, type) ==
  LET matches(student) ==
        \/ includes(toLowerCase(student.name), term)
        \/ includes(toLowerCase(student.email), term)
        \/ (Truthy(student.phone) /\ includes(toLowerCase(student.phone.v), term))
      filtered == SelectSeq(list, matches)
      enrolled(student) == student.enrolled_courses > 0
      notEnrolled(student) == student.enrolled_courses = 0
  IN  IF type = "enrolled" THEN SelectSeq(filtered, enrolled)
      ELSE IF type = "not_enrolled" THEN SelectSeq(filtered, notEnrolled)
      ELSE filtered

filterStudents(list, term, type) ==
  LET matches(student) ==
        \/ includes(toLowerCase(student.name), toLowerCase(term))
        \/ includes(toLowerCase(student.email), toLowerCase(term))
        \/ (Truthy(student.phone)
            /\ includes(toLowerCase(student.phone.v), toLowerCase(term)))
      filtered == SelectSeq(list, matches)
      enrolled(student) == student.enrolled_courses > 0
      notEnrolled(student) == student.enrolled_courses = 0
  IN  IF type = "enrolled" THEN SelectSeq(filtered, enrolled)
      ELSE IF type = "not_enrolled" THEN SelectSeq(filtered, notEnrolled)
      ELSE filtered

\* loadStudents resolves with success: setStudents(result.data || []), then
\* the effect on [students, searchTerm, filterType] runs filterStudents
loadStudents ==
  /\ studentsLoading
  /\ \E list \in StudentLists :
       /\ students' = list
       /\ filteredStudents' = filterStudents(list, searchTerm, filterType)
  /\ studentsLoading' = FALSE
  /\ adminEvent' = [ev |-> "loaded"]
  /\ UNCHANGED <<searchTerm, filterType, studentsError>>
  /\ UNCHANGED resetVars
  /\ UNCHANGED chatVars

\* loadStudents fails: the fetch rejects or result.success is false
loadStudents_failed ==
  /\ studentsLoading
  /\ \E message \in {<<"Failed to load students">>, <<"Unauthorized">>} :
       studentsError' = message
  /\ studentsLoading' = FALSE
  /\ adminEvent' = [ev |-> "load failed"]
  /\ UNCHANGED <<students, filteredStudents, searchTerm, filterType>>
  /\ UNCHANGED resetVars
  /\ UNCHANGED chatVars

\* setSearchTerm from the search box (rendered once loading is over), then
\* the effect
SetSearchTerm ==
  /\ ~studentsLoading
  /\ \E term \in SearchTerms :
       /\ searchTerm' = term
       /\ filteredStudents' = filterStudents(students, term, filterType)
  /\ adminEvent' = [ev |-> "search"]
  /\ UNCHANGED <<students, filterType, studentsError, studentsLoading>>
  /\ UNCHANGED resetVars
  /\ UNCHANGED chatVars

\* setFilterType from the filter control, then the effect
SetFilterType ==
  /\ ~studentsLoading
  /\ \E type \in FilterTypes :
       /\ filterType' = type
       /\ filteredStudents' = filterStudents(students, searchTerm, type)
  /\ adminEvent' = [ev |-> "filter"]
  /\ UNCHANGED <<students, searchTerm, studentsError, studentsLoading>>
  /\ UNCHANGED resetVars
  /\ UNCHANGED chatVars

StudentsNext == loadStudents \/ loadStudents_failed \/ SetSearchTerm \/ SetFilterType

StudentsSpec == Init /\ [][StudentsNext]_vars

\* ------------------------------------------- the reset-password dialog
MinPasswordLength == 6

PwChars == {"x", "y"}

\* n characters, the last one c
Typed(n, c) == [i \in 1..n |-> IF i = n THEN c ELSE "x"]

\* what an input of the dialog can hold: nothing, or a text one shorter than
\* the minimum up to the longest the model types
Passwords ==
  {<<>>} \cup
  {Typed(n, c) : n \in (MinPasswordLength - 1)..MaxPasswordLen, c \in PwChars}

NoMessage == <<>>

\* the three throws at the top of the try block, in the order of the code
ValidationError_matchFirst(form) ==
  IF form.newPassword = <<>> \/ form.confirmPassword = <<>>
    THEN <<"Both password fields are required">>
  ELSE IF form.newPassword # form.confirmPassword
    THEN <<"Passwords do not match">>
  ELSE IF Len(form.newPassword) < MinPasswordLength
    THEN <<"Password must be at least 6 characters long">>
  ELSE NoMessage

ValidationError(form) ==
  IF form.newPassword = <<>> \/ form.confirmPassword = <<>>
    THEN <<"Both password fields are required">>
  ELSE IF Len(form.newPassword) < MinPasswordLength
    THEN <<"Password must be at least 6 characters long">>
  ELSE IF form.newPassword # form.confirmPassword
    THEN <<"Passwords do not match">>
  ELSE NoMessage

\* the body of the POST to /api/admin/students/:id/reset-password
ResetBody(form) == [newPassword |-> form.newPassword]

\* what the awaited fetch and response.json() can produce
ResetOutcomes ==
  {[threw |-> TRUE, message |-> <<"Failed to fetch">>],
   [threw |-> TRUE, message |-> <<"Unexpected token">>],
   [threw |-> FALSE, result |-> [success |-> TRUE, error |-> Undefined]],
   [threw |-> FALSE, result |-> [success |-> FALSE,
                                 error |-> Str(<<"Student not found">>)]],
   [threw |-> FALSE, result |-> [success |-> FALSE, error |-> Undefined]]}

\* result.error || "Failed to reset password"
ResetFailure(result) ==
  IF Truthy(result.error) THEN result.error.v ELSE <<"Failed to reset password">>

\* the Reset Password button of the page, and the dialog's onOpenChange
OpenPasswordDialog ==
  /\ ~showPasswordDialog
  /\ showPasswordDialog' = TRUE
  /\ adminEvent' = [ev |-> "dialog"]
  /\ UNCHANGED <<passwordForm, passwordLoading, passwordError, passwordSuccess,
                 resetPc, sent, timers>>
  /\ UNCHANGED listVars
  /\ UNCHANGED chatVars

ClosePasswordDialog ==
  /\ showPasswordDialog
  /\ showPasswordDialog' = FALSE
  /\ adminEvent' = [ev |-> "dialog"]
  /\ UNCHANGED <<passwordForm, passwordLoading, passwordError, passwordSuccess,
                 resetPc, sent, timers>>
  /\ UNCHANGED listVars
  /\ UNCHANGED chatVars

\* onChange of the two inputs (they are not disabled while a reset is pending)
SetNewPassword ==
  /\ showPasswordDialog
  /\ \E text \in Passwords :
       passwordForm' = [passwordForm EXCEPT !.newPassword = text]
  /\ adminEvent' = [ev |-> "edit"]
  /\ UNCHANGED <<showPasswordDialog, passwordLoading, passwordError,
                 passwordSuccess, resetPc, sent, timers>>
  /\ UNCHANGED listVars
  /\ UNCHANGED chatVars

SetConfirmPassword ==
  /\ showPasswordDialog
  /\ \E text \in Passwords :
       passwordForm' = [passwordForm EXCEPT !.confirmPassword = text]
  /\ adminEvent' = [ev |-> "edit"]
  /\ UNCHANGED <<showPasswordDialog, passwordLoading, passwordError,
                 passwordSuccess, resetPc, sent, timers>>
  /\ UNCHANGED listVars
  /\ UNCHANGED chatVars

\* handleResetPassword up to its first await: either a validation throw, the
\* catch and the finally (all in one tick), or the fetch is issued
handleResetPassword ==
  /\ showPasswordDialog
  /\ ~passwordLoading
  /\ resetPc = "idle"
  /\ passwordSuccess' = NoMessage
  /\ IF ValidationError(passwordForm) # NoMessage
       THEN /\ passwordError' = ValidationError(passwordForm)
            /\ passwordLoading' = FALSE
            /\ adminEvent' = [ev |-> "submit", outcome |-> "invalid"]
            /\ UNCHANGED <<resetPc, sent>>
       ELSE /\ Len(sent) < MaxResets
            /\ passwordError' = NoMessage
            /\ passwordLoading' = TRUE
            /\ sent' = Append(sent, ResetBody(passwordForm))
            /\ resetPc' = "awaiting"
            /\ adminEvent' = [ev |-> "submit", outcome |-> "sent"]
  /\ UNCHANGED <<showPasswordDialog, passwordForm, timers>>
  /\ UNCHANGED listVars
  /\ UNCHANGED chatVars

\* the rest of handleResetPassword once the fetch and response.json() settle
handleResetPassword_resume ==
  /\ resetPc = "awaiting"
  /\ \E o \in ResetOutcomes :
       IF o.threw
         THEN /\ passwordError' = o.message
              /\ adminEvent' = [ev |-> "settled", how |-> "threw"]
              /\ UNCHANGED <<passwordSuccess, passwordForm, timers>>
       ELSE IF ~o.result.success
         THEN /\ passwordError' = ResetFailure(o.result)
              /\ adminEvent' = [ev |-> "settled", how |-> "refused"]
              /\ UNCHANGED <<passwordSuccess, passwordForm, timers>>
       ELSE /\ passwordSuccess' = <<"Password reset successfully!">>
            /\ passwordForm' = [newPassword |-> <<>>, confirmPassword |-> <<>>]
            /\ timers' = timers + 1
            /\ adminEvent' = [ev |-> "settled", how |-> "success"]
            /\ UNCHANGED passwordError
  /\ passwordLoading' = FALSE
  /\ resetPc' = "idle"
  /\ UNCHANGED <<showPasswordDialog, sent>>
  /\ UNCHANGED listVars
  /\ UNCHANGED chatVars

\* the setTimeout callback scheduled after a successful reset
CloseAfterSuccess ==
  /\ timers > 0
  /\ timers' = timers - 1
  /\ showPasswordDialog' = FALSE
  /\ passwordSuccess' = NoMessage
  /\ adminEvent' = [ev |-> "timer"]
  /\ UNCHANGED <<passwordForm, passwordLoading, passwordError, resetPc, sent>>
  /\ UNCHANGED listVars
  /\ UNCHANGED chatVars

ResetNext ==
  \/ OpenPasswordDialog
  \/ ClosePasswordDialog
  \/ SetNewPassword
  \/ SetConfirmPassword
  \/ handleResetPassword
  \/ handleResetPassword_resume
  \/ CloseAfterSuccess

ResetSpec == Init /\ [][ResetNext]_vars

\* ------------------------------------------------- claims about the relay
\* the request body parsed to an object whose fields POST has read
Readable == request.parse = "ok" /\ ~Nullish(request.json)
reqQuery == Member(request.json, "query")
reqSubject == Member(request.json, "subject")

Rejected ==
  /\ outbound = <<>>
  /\ relayPc = "responded" => reply.status = 400 /\ ~reply.body.success

\* the upstream detail of an outcome: what the provider or the network said
Detail(o) ==
  IF o.kind = "throws" THEN {o.statusText}
  ELSE IF o.ok THEN {}
  ELSE {o.statusText} \cup
       (IF o.body.parse = "ok" /\ ~Nullish(o.body.json)
           /\ Truthy(OptMember(Member(o.body.json, "error"), "message"))
          THEN {OptMember(Member(o.body.json, "error"), "message").v} ELSE {})

Contains(s, d) == \E i \in 0..(Len(s) - Len(d)) : SubSeq(s, i + 1, i + Len(d)) = d

\* C1: a request whose question is empty after trimming, or whose subject is
\* missing or empty, gets the HTTP 400 failure and no provider call is made.
C1_BlankRejected ==
  (/\ relayPc # "idle"
   /\ Readable
   /\ \/ ~Truthy(reqQuery)
      \/ reqQuery.t = "string" /\ trim(reqQuery.v) = <<>>
      \/ ~Truthy(reqSubject))
  => Rejected

WellFormed == Readable /\ Truthy(reqQuery) /\ Truthy(reqSubject)

\* C2: a request with a non-empty query and subject makes exactly one provider
\* call before the relay responds, whatever the provider does with it.
C2_ExactlyOneCall ==
  (relayPc # "idle" /\ WellFormed) => Len(outbound) = 1

C2_Witness ==
  /\ relayPc = "responded" /\ WellFormed
  /\ upstream.kind = "response" /\ ~upstream.ok
  /\ Len(outbound) = 1

\* the text of the first part of the first candidate, read off the body
FirstTextPresent(b) ==
  /\ b.parse = "ok"
  /\ b.json.t = "object" /\ "candidates" \in DOMAIN b.json.f
  /\ LET cs == b.json.f.candidates IN
       /\ cs.t = "array" /\ Len(cs.a) > 0
       /\ cs.a[1].t = "object" /\ "content" \in DOMAIN cs.a[1].f
       /\ LET ct == cs.a[1].f.content IN
            /\ ct.t = "object" /\ "parts" \in DOMAIN ct.f
            /\ ct.f.parts.t = "array" /\ Len(ct.f.parts.a) > 0
            /\ ct.f.parts.a[1].t = "object" /\ "text" \in DOMAIN ct.f.parts.a[1].f
            /\ ct.f.parts.a[1].f.text.t = "string"

FirstText(b) == b.json.f.candidates.a[1].f.content.f.parts.a[1].f.text

ProviderOk == relayPc = "responded" /\ upstream.kind = "response" /\ upstream.ok

\* C3 as stated: a success status of the provider always gives HTTP 200 with
\* the first candidate's text when present, "No response received" otherwise.
C3_OkNeverFails ==
  ProviderOk =>
    /\ reply.status = 200 /\ reply.body.success
    /\ reply.body.response =
         IF FirstTextPresent(upstream.body) THEN FirstText(upstream.body)
         ELSE Str(<<"No response received">>)

\* C3 amended: a success status with a body that parses to a non-null value
\* gives HTTP 200 with the first candidate's text when it is present and not
\* empty, "No response received" otherwise; an unparseable or null body of a
\* success status gives the HTTP 500 failure.
C3_OkParsedAnswers ==
  ProviderOk =>
    IF upstream.body.parse = "ok" /\ ~Nullish(upstream.body.json)
      THEN /\ reply.status = 200 /\ reply.body.success
           /\ reply.body.response =
                IF FirstTextPresent(upstream.body) /\ FirstText(upstream.body).v # <<>>
                  THEN FirstText(upstream.body)
                  ELSE Str(<<"No response received">>)
      ELSE reply.status = 500 /\ ~reply.body.success

C3_Witness ==
  /\ ProviderOk
  /\ FirstTextPresent(upstream.body)
  /\ Len(upstream.body.json.f.candidates.a) = 2
  /\ upstream.body.json.f.candidates.a[2] # upstream.body.json.f.candidates.a[1]
  /\ reply.body.success
  /\ reply.body.response = FirstText(upstream.body)

ProviderFailed ==
  /\ relayPc = "responded"
  /\ \/ upstream.kind = "throws"
     \/ upstream.kind = "response" /\ (~upstream.ok \/ upstream.body.parse = "throws")

\* C4: a non-2xx status, an unparseable body or a throwing call gives HTTP 500,
\* success=false and the one fixed error string, which holds nothing of what
\* the provider or the network said.
C4_OpaqueFailure ==
  ProviderFailed =>
    /\ reply.status = 500
    /\ ~reply.body.success
    /\ reply.body.error = Str(<<"Failed to get response from AI assistant">>)
    /\ \A d \in Detail(upstream) \cup {caught.message} : ~Contains(reply.body.error.v, d)

C4_Witness ==
  /\ ProviderFailed
  /\ ~upstream.ok
  /\ Contains(caught.message, <<"API key not valid.">>)
  /\ reply.status = 500

\* C5: a request whose subject is not one of the listed subjects gets the
\* HTTP 400 failure and no provider call is made.
C5_UnlistedRejected ==
  (/\ relayPc # "idle"
   /\ Readable
   /\ ~(reqSubject.t = "string" /\ reqSubject.v \in SubjectSet))
  => Rejected

\* C6: a completed call has status 200 with {success: true, response: string}
\* and no error field, or status 400 or 500 with {success: false, error:
\* string} and no response field, and nothing else.
C6_OneVariant ==
  relayPc = "responded" =>
    \/ /\ reply.status = 200
       /\ DOMAIN reply.body = {"success", "response"}
       /\ reply.body.success
       /\ reply.body.response.t = "string"
    \/ /\ reply.status \in {400, 500}
       /\ DOMAIN reply.body = {"success", "error"}
       /\ ~reply.body.success
       /\ reply.body.error.t = "string"

C6_Witness ==
  /\ relayPc = "responded"
  /\ reply.status = 200
  /\ reply.body.response = Str(<<"No response received">>)
  /\ upstream.body = Parsed(Data(Arr(<<>>)))

\* ------------------------------------------------ claims about the widget
Phase ==
  IF loading THEN "Pending"
  ELSE IF response = <<>> THEN "Idle"
  ELSE IF response = ErrorText THEN "Failed"
  ELSE "Answered"

\* C7: a submit taken while the question is empty after trimming or no
\* subject is selected issues no call and leaves query, subject, response,
\* loading and isOpen as they were.
C7_BlankSubmitNoOp ==
  [][(lastEvent'.ev = "submit" /\ (trim(query) = <<>> \/ subject = <<>>))
       => UNCHANGED <<query, subject, response, loading, isOpen, pending>>]_vars

C7_Witness ==
  /\ lastEvent.ev = "submit"
  /\ ~lastEvent.issued
  /\ ~loading
  /\ query # <<>> /\ trim(query) = <<>>
  /\ subject # <<>>

\* C8: at most one call of the widget is in flight at any time, and no call is
\* issued while loading is true.
C8_OneInFlight ==
  /\ [](Len(pending) <= 1)
  /\ [][Len(pending') > Len(pending) => (~loading /\ pending = <<>>)]_vars

C8_Witness ==
  /\ lastEvent.ev = "submit"
  /\ ~lastEvent.issued
  /\ loading
  /\ Len(pending) = 1
  /\ ~Blank(query, subject)

\* C9: every call that is issued ends with loading false and the widget in
\* Answered or Failed (a result that is not empty on display); no submission
\* is accepted before that, and a call that completes always sets the result.
C9_EverySubmissionEnds ==
  /\ (Len(pending) > 0) ~> (~loading /\ Phase \in {"Answered", "Failed"})
  /\ [][Len(pending') > Len(pending) => (~loading /\ pending = <<>>)]_vars
  /\ [][Len(pending') < Len(pending)
          => (~loading' /\ Phase' \in {"Answered", "Failed"})]_vars

C9_Witness ==
  /\ lastEvent.ev = "settled"
  /\ query = <<>>
  /\ pending = <<>>
  /\ Phase = "Failed"

\* C10: when the call in flight resolves with success=true and a text, the
\* widget is in Answered with loading false and shows exactly that text,
\* whatever was edited, cleared or toggled while the call was pending.
C10_AnswerShown ==
  (lastEvent.ev = "settled" /\ lastEvent.how = "resolved" /\ lastEvent.data.success)
  => /\ ~loading
     /\ Phase = "Answered"
     /\ response = lastEvent.data.response.v

C10_Witness ==
  /\ lastEvent.ev = "settled" /\ lastEvent.how = "resolved" /\ lastEvent.data.success
  /\ response = FirstAnswer
  /\ query = <<>> /\ subject = <<>>
  /\ ~isOpen

\* C11: every failure of a call of the widget (success=false with HTTP 400 or
\* 500, a network exception, a body that is no JSON) leaves the widget in
\* Failed with loading false and the one fixed text on display, the same for
\* every kind of failure; the handler ends on each of these paths.
C11_OneFailureText ==
  /\ (/\ lastEvent.ev = "settled"
      /\ lastEvent.how = "resolved" => ~lastEvent.data.success)
     => (~loading /\ Phase = "Failed" /\ response = ErrorText)
  /\ \A r \in {BadRequest, Caught(NoError)} :
       handleSubmit_then(r.body) = [response |-> ErrorText, loading |-> FALSE]
  /\ handleSubmit_catch = [response |-> ErrorText, loading |-> FALSE]

C11_Witness ==
  /\ lastEvent.ev = "settled"
  /\ lastEvent.how = "resolved"
  /\ lastEvent.status = 500
  /\ ~lastEvent.data.success
  /\ response = ErrorText
  /\ ~loading

\* C12: right after clear, from whatever phase it is taken, subject, question
\* and result are empty and the phase is Idle (loading is false).
C12_ClearGivesIdle ==
  lastEvent.ev = "clear"
  => (query = <<>> /\ subject = <<>> /\ response = <<>> /\ ~loading /\ Phase = "Idle")

\* C13: a toggle of the panel flips isOpen and leaves query, subject, response
\* and loading (and the call in flight) as they were, in every phase; a call
\* that is pending when the panel is toggled still settles with its result on
\* display.
C13_ToggleOnlyIsOpen ==
  /\ [][lastEvent'.ev = "toggle"
          => (/\ isOpen' = ~isOpen
              /\ UNCHANGED <<query, subject, response, loading, pending>>)]_vars
  /\ (lastEvent.ev = "toggle" /\ Len(pending) > 0)
       ~> (lastEvent.ev = "settled" /\ ~loading /\ response # <<>>)

C13_Witness ==
  /\ lastEvent.ev = "toggle"
  /\ ~isOpen
  /\ loading
  /\ Len(pending) = 1

\* C14: a clear taken while a call is in flight does not cancel it: the call
\* stays in flight, settles, and its result (the answer or the failure text)
\* goes on display although subject and question are empty; no settling call
\* is discarded as stale.
C14_LateResultApplied ==
  /\ [][lastEvent'.ev = "clear" => UNCHANGED <<pending, loading>>]_vars
  /\ [](lastEvent.ev = "settled" => (~loading /\ response # <<>>))
  /\ (lastEvent.ev = "clear" /\ Len(pending) > 0)
       ~> (lastEvent.ev = "settled" /\ ~loading /\ response # <<>>)

C14_Witness ==
  /\ lastEvent.ev = "settled" /\ lastEvent.how = "resolved"
  /\ isOpen
  /\ query = <<>> /\ subject = <<>>
  /\ response = FirstAnswer

\* C15 as stated: while a call is in flight the subject and the question
\* cannot be changed by user input.
C15_InputsFrozen ==
  [][(loading /\ lastEvent'.ev = "edit") => UNCHANGED <<query, subject>>]_vars

\* C15 amended: while a call is in flight only the submit control is disabled:
\* a submit issues no call and changes nothing, while the subject and the
\* question can still be edited (the witness edits the question in Pending).
C15_OnlySubmitDisabled ==
  [][(loading /\ lastEvent'.ev = "submit")
       => (/\ ~lastEvent'.issued
           /\ UNCHANGED <<query, subject, response, loading, isOpen, pending>>)]_vars

C15_Witness ==
  /\ lastEvent.ev = "edit"
  /\ loading
  /\ Len(pending) = 1
  /\ query # pending[1].query
  /\ subject # pending[1].subject

\* C16: whenever loading is true no result is populated; a submission that is
\* accepted, from Idle, Answered or Failed, empties the result as it sets
\* loading; and a result appears only when the call in flight settles, with
\* loading false from then on.
C16_PendingShowsNothing ==
  /\ [](loading => response = <<>>)
  /\ [][(lastEvent'.ev = "submit" /\ lastEvent'.issued)
          => (loading' /\ response' = <<>>)]_vars
  /\ [][(response' # <<>> /\ response' # response)
          => (lastEvent'.ev = "settled" /\ ~loading')]_vars

C16_Witness ==
  /\ lastEvent.ev = "submit"
  /\ lastEvent.issued
  /\ lastEvent.shown = FirstAnswer
  /\ loading
  /\ response = <<>>

\* C17: every request the widget sends carries a question that is not empty
\* after trimming and a listed subject, so it passes the relay's validation:
\* the relay never answers it with HTTP 400, and a failure the widget is
\* answered with is the HTTP 500 that follows a failed provider call.
C17_WidgetNeverRejected ==
  /\ \A i \in DOMAIN pending :
       trim(pending[i].query) # <<>> /\ pending[i].subject \in SubjectSet
  /\ (origin = "widget" /\ relayPc = "responded")
       => /\ reply.status \in {200, 500}
          /\ Len(outbound) = 1
          /\ ~reply.body.success => (reply.status = 500 /\ ProviderFailed)
  /\ (lastEvent.ev = "settled" /\ lastEvent.how = "resolved")
       => lastEvent.status \in {200, 500}

C17_Witness ==
  /\ origin = "widget"
  /\ relayPc = "responded"
  /\ reply.status = 500
  /\ upstream.kind = "throws"
  /\ trim(reqQuery.v) # reqQuery.v

\* C18: a request whose body is no JSON is answered with HTTP 500 and the
\* fixed failure text, not with HTTP 400, and no provider call is made for it.
C18_UnparseableIs500 ==
  (relayPc # "idle" /\ request.parse = "throws")
  => /\ relayPc = "responded"
     /\ outbound = <<>>
     /\ upstream = NoOutcome
     /\ reply.status = 500
     /\ reply.body = [success |-> FALSE,
                      error |-> Str(<<"Failed to get response from AI assistant">>)]

C18_Witness ==
  /\ relayPc = "responded"
  /\ request = Unparseable
  /\ caught.name = "SyntaxError"
  /\ reply.status = 500

\* ------------------------------------------- claims about the students list
SameLetter(a, b) ==
  a = b \/ {a, b} \in {{"A", "a"}, {"B", "b"}, {"C", "c"}}

ContainsAnyCase(s, term) ==
  \E i \in 0..(Len(s) - Len(term)) :
    \A j \in 1..Len(term) : SameLetter(s[i + j], term[j])

Wanted(student, term, type) ==
  /\ \/ ContainsAnyCase(student.name, term)
     \/ ContainsAnyCase(student.email, term)
     \/ (student.phone.t = "string" /\ ContainsAnyCase(student.phone.v, term))
  /\ type = "enrolled" => student.enrolled_courses > 0
  /\ type = "not_enrolled" => student.enrolled_courses = 0

RECURSIVE Keep(_, _, _)
Keep(list, term, type) ==
  IF list = <<>> THEN <<>>
  ELSE IF Wanted(Head(list), term, type)
    THEN <<Head(list)>> \o Keep(Tail(list), term, type)
  ELSE Keep(Tail(list), term, type)

Rows(list) == {list[i] : i \in DOMAIN list}

\* C20: after any change to the student list, the search term or the filter
\* type, filteredStudents is the order-preserving sub-list of students whose
\* name, email or phone contains the search term in any letter case and that
\* satisfy the filter type; with an empty term and filter 'all' it equals
\* students; the enrolled and not_enrolled results share no row.
C20_FilteredIsSublist ==
  /\ filteredStudents = Keep(students, searchTerm, filterType)
  /\ (searchTerm = <<>> /\ filterType = "all") => filteredStudents = students
  /\ Rows(filterStudents(students, searchTerm, "enrolled"))
       \cap Rows(filterStudents(students, searchTerm, "not_enrolled")) = {}

C20_Witness ==
  /\ adminEvent.ev = "search"
  /\ searchTerm = <<"A", "B">>
  /\ filterType = "enrolled"
  /\ Len(students) = 2
  /\ Len(filteredStudents) = 1
  /\ filteredStudents[1] = students[2]

\* ------------------------------------- claims about the reset-password dialog
\* the checks of the claim, in its order, with the message of each
Checks(form) ==
  <<[passes |-> form.newPassword # <<>> /\ form.confirmPassword # <<>>,
     message |-> <<"Both password fields are required">>],
    [passes |-> Len(form.newPassword) >= 6,
     message |-> <<"Password must be at least 6 characters long">>],
    [passes |-> form.newPassword = form.confirmPassword,
     message |-> <<"Passwords do not match">>]>>

FormOk(form) == \A i \in 1..3 : Checks(form)[i].passes

FirstFailure(form) ==
  LET first == CHOOSE i \in 1..3 :
                 /\ ~Checks(form)[i].passes
                 /\ \A j \in 1..(i - 1) : Checks(form)[j].passes
  IN  Checks(form)[first].message

ResetSubmitted == adminEvent'.ev = "submit"

ResetSettled == adminEvent'.ev = "settled"

\* C19: the reset request is sent only when both fields are non-empty, the new
\* password has at least 6 characters and the fields are equal; a submission
\* failing a check sends nothing, sets passwordError to the message of the
\* first failing check, leaves the form as typed and ends with
\* passwordLoading false; passwordLoading is false whenever the handler has
\* finished, whether by a validation failure, a server failure or a success.
C19_ResetValidated ==
  /\ [](resetPc = "idle" => ~passwordLoading)
  /\ [][/\ sent' # sent =>
            /\ FormOk(passwordForm)
            /\ sent' = Append(sent, [newPassword |-> passwordForm.newPassword])
        /\ (ResetSubmitted /\ ~FormOk(passwordForm)) =>
            /\ sent' = sent
            /\ passwordError' = FirstFailure(passwordForm)
            /\ passwordForm' = passwordForm
            /\ ~passwordLoading'
        /\ (ResetSubmitted /\ FormOk(passwordForm)) => sent' # sent
        /\ ResetSettled => ~passwordLoading']_vars

C19_Witness ==
  /\ adminEvent = [ev |-> "submit", outcome |-> "invalid"]
  /\ Len(passwordForm.newPassword) < 6
  /\ passwordForm.newPassword # <<>>
  /\ passwordForm.confirmPassword # <<>>
  /\ passwordForm.newPassword # passwordForm.confirmPassword
  /\ passwordError = <<"Password must be at least 6 characters long">>
  /\ ~passwordLoading
  /\ Len(sent) = 1

====
